---- MODULE Spec2Model ----
(***************************************************************************)
(* Path generation of pipelib (src/pipelib/pipelib.py): the strand         *)
(* builder and the path extractor of _try_generating_paths, the            *)
(* acceptability test, the quality score and the search of generate_paths. *)
(* Cells are <<i, j>> pairs, 0-based as in the source; strand indices      *)
(* stored in strandi are 0-based list positions as in the source.          *)
(*                                                                         *)
(* The random source `rand` is either an arbitrary source, every draw of   *)
(* which may return any value of its range (specification Spec), or a      *)
(* seeded generator, whose draws are a function of its state               *)
(* (specification SeededSpec).                                             *)
(***************************************************************************)
EXTENDS Integers, Sequences, FiniteSets, TLC

VARIABLES settings, rand, pc, adj, strands, strandi, seeds, queue, paths,
          accepted, result, err, appended, seeded, walked, rounds, rejected

vars == <<settings, rand, pc, adj, strands, strandi, seeds, queue, paths,
          accepted, result, err, appended, seeded, walked, rounds, rejected>>

(* ---------------- bounds of the explored inputs ---------------- *)
MaxR == 2
MaxC == 3
MaxCells == 6
MaxEndcl == 3
MaxPathl == 3
MaxDistl == 2
MaxAttemptc == 2
\* r * c * endcl * attemptc of the explored settings
MaxWork == 8
\* the seeds of the seeded generator
MaxSeed == 899

(* ---------------- small helpers ---------------- *)
Abs(x) == IF x < 0 THEN -x ELSE x

Min(a, b) == IF a < b THEN a ELSE b

Range(s) == {s[k] : k \in 1..Len(s)}

RECURSIVE SumSeq(_)
SumSeq(s) == IF s = <<>> THEN 0 ELSE Head(s) + SumSeq(Tail(s))

(* ---------------- the random source ---------------- *)
AnySource == [mode |-> "any", x |-> 0]

Seeded(x) == [mode |-> "seeded", x |-> x]

\* one step of the seeded generator (a linear congruential generator stands
\* for the generator of random.Random)
Step(x) == (x * 75 + 74) % 65537

\* rand's draw of a value below n: the value and the source after the draw
RandBelow(rs, n) ==
    IF rs.mode = "any" THEN {[v |-> k, rs |-> rs] : k \in 0..(n - 1)}
    ELSE {[v |-> Step(rs.x) % n, rs |-> Seeded(Step(rs.x))]}

\* mutant: the exchange of shuffle copies one way only
swap_copy(s, a, b) == [s EXCEPT ![a] = s[b]]

\* x[i], x[j] = x[j], x[i]
swap(s, a, b) == [s EXCEPT ![a] = s[b], ![b] = s[a]]

\* rand.shuffle(x): for i in reversed(range(1, len(x))): j = randbelow(i + 1);
\* x[i], x[j] = x[j], x[i].  Positions here are 1-based.
RECURSIVE ShuffleFrom(_, _, _)
ShuffleFrom(rs, s, i) ==
    IF i <= 1 THEN {[seq |-> s, rs |-> rs]}
    ELSE UNION {ShuffleFrom(p[1], p[2], i - 1) :
                  p \in {<<d.rs, swap(s, i, d.v + 1)>> : d \in RandBelow(rs, i)}}

\* shuffled(rand, seq): every result with the source it leaves
shuffled(rs, s) == ShuffleFrom(rs, s, Len(s))

(* ---------------- the grid ---------------- *)
DIJS == << <<-1, 0>>, <<0, 1>>, <<1, 0>>, <<0, -1>> >>

Cells(r, c) == (0..(r - 1)) \X (0..(c - 1))

Grid == Cells(settings.r, settings.c)

\* ((i, j) for i in range(r) for j in range(c)): the cells in row-major order
CellList(r, c) == [k \in 1..(r * c) |-> <<(k - 1) \div c, (k - 1) % c>>]

dist(i1, j1, i2, j2) == Abs(i1 - i2) + Abs(j1 - j2)

(* ---------------- DifficultySettings ---------------- *)
DifficultySettings ==
    {s \in [r : 1..MaxR, c : 1..MaxC, endcl : 1..MaxEndcl, pathl : 0..MaxPathl,
            distl : 0..MaxDistl, attemptc : 0..MaxAttemptc] :
        /\ s.r * s.c <= MaxCells
        /\ s.r * s.c * s.endcl * s.attemptc <= MaxWork}

\* DIFFICULTY_SETTINGS['trivial']
Trivial == [r |-> 4, c |-> 6, endcl |-> 4, pathl |-> 1, distl |-> 1, attemptc |-> 2]

(* ---------------- locals of one _try_generating_paths call ---------------- *)
EmptyAdj == [x \in Grid |-> <<>>]

\* mutant: the cells that are in no strand list are offered as seeds
UnassignedList_unowned ==
    LET free(x) == \A k \in 1..Len(strands) : x \notin Range(strands[k])
    IN  SelectSeq(CellList(settings.r, settings.c), free)

\* the generator of line 150: the unassigned cells in row-major order
UnassignedList ==
    LET free(x) == x \notin DOMAIN strandi
    IN  SelectSeq(CellList(settings.r, settings.c), free)

\* mutant: the slice keeps one seed too few
SeedSlice_short(s) == SubSeq(s, 1, Min(settings.endcl - 1, Len(s)))

\* seeds = seeds[:endcl]
SeedSlice(s) == SubSeq(s, 1, Min(settings.endcl, Len(s)))

\* mutant: a seed is given the number of strands created so far, the pruned
\* ones included, as its index
SeedStrandi_created(si, n, sel) ==
    LET pruned == {x \in DOMAIN si : \A k \in 1..Len(strands) : x \notin Range(strands[k])}
        at(x) == CHOOSE p \in 1..Len(sel) : sel[p] = x
    IN  [x \in DOMAIN si \cup Range(sel) |->
            IF x \in DOMAIN si THEN si[x]
            ELSE n + Cardinality(pruned) + at(x) - 1]

\* mutant: every seed of a round is given the index of the round's first seed
RECURSIVE SeedStrandi_same(_, _, _)
SeedStrandi_same(si, n, sel) ==
    IF sel = <<>> THEN si
    ELSE SeedStrandi_same((Head(sel) :> n) @@ si, n, Tail(sel))

\* for i, j in seeds: strandi[i, j] = len(strands); strands.append([(i, j)])
RECURSIVE SeedStrandi(_, _, _)
SeedStrandi(si, n, sel) ==
    IF sel = <<>> THEN si
    ELSE SeedStrandi((Head(sel) :> n) @@ si, n + 1, Tail(sel))

SeedStrands(st, sel) == st \o [k \in 1..Len(sel) |-> <<sel[k]>>]

\* mutant: every seed enters the frontier three times
Frontier_triple(sel) == sel \o sel \o sel

\* seeds += seeds
Frontier(sel) == sel \o sel

\* randpop: swap the drawn position with the last one, then pop
randpop_rest(seq, idx) == SubSeq(swap(seq, idx, Len(seq)), 1, Len(seq) - 1)

good_neighbors(cell) ==
    LET cand == [k \in 1..Len(DIJS) |-> <<cell[1] + DIJS[k][1], cell[2] + DIJS[k][2]>>]
        ok(n) == /\ 0 <= n[1] /\ n[1] < settings.r
                 /\ 0 <= n[2] /\ n[2] < settings.c
                 /\ n \notin DOMAIN strandi
    IN  SelectSeq(cand, ok)

\* mutant: only empty strands are dropped
LongEnough_any(strand) == Len(strand) > 0

\* strands = [strand for strand in strands if len(strand) > 1]
LongEnough(strand) == Len(strand) > 1

Pruned(st) == SelectSeq(st, LongEnough)

\* mutant: the loop runs until endcl strands exist, not until full coverage
loop_test_strands == Len(strands) < settings.endcl

\* while len(strandi) < r * c
loop_test == Cardinality(DOMAIN strandi) < settings.r * settings.c

\* an exception leaving generate_paths: its type and the step that raised it
NoError == [type |-> "none", at |-> "none"]

(* ---------------- initial state ---------------- *)
Idle ==
    /\ pc = "start"
    /\ adj = <<>>
    /\ strands = <<>>
    /\ strandi = <<>>
    /\ seeds = <<>>
    /\ queue = <<>>
    /\ paths = <<>>
    /\ accepted = <<>>
    /\ result = <<>>
    /\ err = NoError
    /\ appended = <<>>
    /\ seeded = 0
    /\ walked = <<>>
    /\ rounds = 0
    /\ rejected = FALSE

\* any settings within the bounds, any random source
Init ==
    /\ settings \in DifficultySettings
    /\ rand = AnySource
    /\ Idle

\* the 'trivial' difficulty with a seeded random source
SeededInit ==
    /\ settings = Trivial
    /\ rand \in {Seeded(x) : x \in 0..MaxSeed}
    /\ Idle

\* entry of _try_generating_paths: fresh adj, strands, strandi
EnterAttempt ==
    /\ adj' = EmptyAdj
    /\ strands' = <<>>
    /\ strandi' = <<>>
    /\ seeds' = <<>>
    /\ queue' = <<>>
    /\ paths' = <<>>
    /\ appended' = [x \in Grid |-> 0]
    /\ seeded' = 0
    /\ walked' = <<>>
    /\ rounds' = 0
    /\ pc' = "seed"

Raise(e) ==
    /\ pc' = "raised"
    /\ err' = [type |-> e, at |-> pc]

\* generate_paths: max(islice(generator, attemptc)) asks for the first attempt
Begin ==
    /\ pc = "start"
    /\ IF settings.attemptc <= 0
       THEN /\ Raise("ValueError")
            /\ UNCHANGED <<adj, strands, strandi, seeds, queue, paths, appended,
                           seeded, walked, rounds>>
       ELSE /\ EnterAttempt
            /\ UNCHANGED err
    /\ UNCHANGED <<settings, rand, accepted, result, rejected>>

\* lines 150-158: one round's seeding
Seed ==
    /\ pc = "seed"
    /\ \E sh \in shuffled(rand, UnassignedList) :
        LET sel == SeedSlice(sh.seq)
        IN  /\ rand' = sh.rs
            /\ strandi' = SeedStrandi(strandi, Len(strands), sel)
            /\ strands' = SeedStrands(strands, sel)
            /\ seeds' = Frontier(sel)
            /\ appended' = [x \in Grid |-> IF x \in Range(sel) THEN appended[x] + 1
                                           ELSE appended[x]]
            /\ seeded' = Len(sel)
    /\ rounds' = rounds + 1
    /\ pc' = "grow"
    /\ UNCHANGED <<settings, adj, queue, paths, accepted, result, err, walked,
                   rejected>>

\* lines 160-177: one iteration of the frontier loop
Grow ==
    /\ pc = "grow"
    /\ seeds # <<>>
    /\ \E d \in RandBelow(rand, Len(seeds)) :
        LET cell == seeds[d.v + 1]
            rest == randpop_rest(seeds, d.v + 1)
            neighs == good_neighbors(cell)
        IN  IF cell \notin DOMAIN strandi
            THEN /\ Raise("AssertionError")
                 /\ seeds' = rest
                 /\ rand' = d.rs
                 /\ UNCHANGED <<adj, strandi, strands, appended>>
            ELSE IF neighs = <<>>
            THEN /\ seeds' = rest
                 /\ rand' = d.rs
                 /\ UNCHANGED <<adj, strandi, strands, appended, pc, err>>
            ELSE \E e \in RandBelow(d.rs, Len(neighs)) :
                 LET n == neighs[e.v + 1]
                     si == (n :> strandi[cell]) @@ strandi
                 IN  /\ rand' = e.rs
                     /\ adj' = [adj EXCEPT ![cell] = Append(@, n),
                                           ![n] = Append(@, cell)]
                     /\ strandi' = si
                     /\ IF si[n] + 1 \in DOMAIN strands
                        THEN /\ strands' = [strands EXCEPT ![si[n] + 1] = Append(@, n)]
                             /\ appended' = [appended EXCEPT ![n] = @ + 1]
                             /\ seeds' = Append(rest, n)
                             /\ UNCHANGED <<pc, err>>
                        ELSE /\ Raise("IndexError")
                             /\ seeds' = rest
                             /\ UNCHANGED <<strands, appended>>
    /\ UNCHANGED <<settings, queue, paths, accepted, result, seeded, walked,
                   rounds, rejected>>

\* line 179 and the loop test of line 149
Prune ==
    /\ pc = "grow"
    /\ seeds = <<>>
    /\ strands' = Pruned(strands)
    /\ pc' = IF loop_test THEN "seed" ELSE "shuffle"
    /\ UNCHANGED <<settings, rand, adj, strandi, seeds, queue, paths, accepted,
                   result, err, appended, seeded, walked, rounds, rejected>>

(* ---------------- lines 198-201: choosing the strands to cleanse ---------------- *)
\* mutant: reverse=True is left out, shortest first
RECURSIVE SortByLenAsc(_)
SortByLenAsc(s) ==
    IF s = <<>> THEN <<>>
    ELSE LET h == Head(s)
             t == SortByLenAsc(Tail(s))
             shorter(x) == Len(x) < Len(h)
             notshorter(x) == Len(x) >= Len(h)
         IN  SelectSeq(t, shorter) \o <<h>> \o SelectSeq(t, notshorter)

\* list.sort(key=len, reverse=True): stable, longest first
RECURSIVE SortByLenDesc(_)
SortByLenDesc(s) ==
    IF s = <<>> THEN <<>>
    ELSE LET h == Head(s)
             t == SortByLenDesc(Tail(s))
             longer(x) == Len(x) > Len(h)
             notlonger(x) == Len(x) <= Len(h)
         IN  SelectSeq(t, longer) \o <<h>> \o SelectSeq(t, notlonger)

\* mutant: one strand too many is taken
islice_more(s, n) == SubSeq(s, 1, Min(n + 1, Len(s)))

\* islice(strands, endcl)
islice(s, n) == SubSeq(s, 1, Min(n, Len(s)))

\* lines 198-199, and the strands line 201 will cleanse
ShuffleSort ==
    /\ pc = "shuffle"
    /\ \E sh \in shuffled(rand, strands) :
        /\ rand' = sh.rs
        /\ strands' = SortByLenDesc(sh.seq)
        /\ queue' = islice(SortByLenDesc(sh.seq), settings.endcl)
    /\ pc' = "cleanse"
    /\ UNCHANGED <<settings, adj, strandi, seeds, paths, accepted, result, err,
                   appended, seeded, walked, rounds, rejected>>

(* ---------------- lines 181-196: cleanse ---------------- *)
\* [cell for cell in strand if len(adj[cell]) == 1]
DegreeOne(strand) ==
    LET one(cell) == Len(adj[cell]) = 1
    IN  SelectSeq(strand, one)

\* lines 184-186; fuel stops a walk that would never reach ecell
RECURSIVE Walk(_, _, _)
Walk(seq, ecell, fuel) ==
    IF seq[Len(seq)] = ecell THEN [err |-> "none", seq |-> seq]
    ELSE IF fuel = 0 THEN [err |-> "diverge", seq |-> seq]
    ELSE LET nxt == Range(adj[seq[Len(seq)]]) \ {seq[Len(seq) - 1]}
         IN  IF Cardinality(nxt) # 1 THEN [err |-> "ValueError", seq |-> seq]
             ELSE Walk(Append(seq, CHOOSE x \in nxt : TRUE), ecell, fuel - 1)

\* mutant: the bound is not capped at 2
trim_bound_nocap(seq) == Len(seq) - settings.distl

\* line 188
trim_bound(seq) == Min(Len(seq) - settings.distl, 2)

\* mutant: the trim count is drawn from the module-level random source, not
\* from rand
TrimCount_global(rs, seq) ==
    {[v |-> k, rs |-> rs] : k \in 0..(IF trim_bound(seq) > 0 THEN trim_bound(seq) ELSE 0)}

\* line 189: ct = rand.randint(0, ct) when ct > 0
TrimCount(rs, seq) ==
    IF trim_bound(seq) > 0 THEN RandBelow(rs, trim_bound(seq) + 1)
    ELSE {[v |-> trim_bound(seq), rs |-> rs]}

\* lines 190-194: ct times, popleft if rand.randrange(2) else pop
RECURSIVE Trim(_, _, _)
Trim(rs, seq, ct) ==
    IF ct <= 0 THEN {[err |-> "none", seq |-> seq, rs |-> rs]}
    ELSE IF seq = <<>> THEN {[err |-> "IndexError", seq |-> seq, rs |-> rs]}
    ELSE UNION {Trim(d.rs, IF d.v # 0 THEN Tail(seq)
                           ELSE SubSeq(seq, 1, Len(seq) - 1), ct - 1)
                : d \in RandBelow(rs, 2)}

\* mutant: pop() is written for the final popleft()
popleft_pop(seq) ==
    IF seq = <<>> THEN [err |-> "IndexError", seq |-> seq]
    ELSE [err |-> "none", seq |-> SubSeq(seq, 1, Len(seq) - 1)]

\* mutant: the final popleft is left out
popleft_skip(seq) == [err |-> "none", seq |-> seq]

\* line 195
popleft(seq) ==
    IF seq = <<>> THEN [err |-> "IndexError", seq |-> seq]
    ELSE [err |-> "none", seq |-> Tail(seq)]

\* what one call of cleanse did: the strand, the walked sequence, the number
\* of cells the random trimming removed, the returned path, the source left
Outcome(e, strand, seq, t, path, rs) ==
    [err |-> e, strand |-> strand, seq |-> seq, t |-> t, path |-> path, rs |-> rs]

\* every outcome of cleanse(strand) over the draws of rand
cleanse(rs, strand) ==
    LET ends == DegreeOne(strand)
    IN  IF Len(ends) # 2 THEN {Outcome("ValueError", strand, <<>>, 0, <<>>, rs)}
        ELSE LET w == Walk(<<ends[1], ends[1]>>, ends[2], Cardinality(Grid) + 1)
             IN  IF w.err # "none" THEN {Outcome(w.err, strand, w.seq, 0, <<>>, rs)}
                 ELSE UNION {
                        {LET pl == popleft(tr.seq)
                             t == IF ct.v > 0 THEN ct.v ELSE 0
                         IN  IF tr.err # "none"
                             THEN Outcome(tr.err, strand, w.seq, t, <<>>, tr.rs)
                             ELSE Outcome(pl.err, strand, w.seq, t, pl.seq, tr.rs)
                         : tr \in Trim(ct.rs, w.seq, ct.v)}
                        : ct \in TrimCount(rs, w.seq)}

\* line 201: the generator cleanses the next strand
Cleanse ==
    /\ pc = "cleanse"
    /\ queue # <<>>
    /\ \E out \in cleanse(rand, Head(queue)) :
        /\ rand' = out.rs
        /\ walked' = Append(walked, [err |-> out.err, strand |-> out.strand,
                                     seq |-> out.seq, t |-> out.t, path |-> out.path])
        /\ IF out.err = "none"
           THEN /\ paths' = Append(paths, out.path)
                /\ UNCHANGED <<pc, err>>
           ELSE /\ Raise(out.err)
                /\ UNCHANGED paths
    /\ queue' = Tail(queue)
    /\ UNCHANGED <<settings, adj, strands, strandi, seeds, accepted, result,
                   appended, seeded, rounds, rejected>>

\* line 201: the cleansed paths are shuffled and returned
Return ==
    /\ pc = "cleanse"
    /\ queue = <<>>
    /\ \E sh \in shuffled(rand, paths) :
        /\ rand' = sh.rs
        /\ paths' = sh.seq
    /\ pc' = "accept"
    /\ UNCHANGED <<settings, adj, strands, strandi, seeds, queue, accepted, result,
                   err, appended, seeded, walked, rounds, rejected>>

(* ---------------- lines 204-209: acceptability and quality ---------------- *)
\* mutant: the distance is tested before the length
RECURSIVE _acceptable_distfirst(_)
_acceptable_distfirst(ps) ==
    IF ps = <<>> THEN "True"
    ELSE LET path == Head(ps)
         IN  IF path = <<>> THEN "IndexError"
             ELSE IF ~(dist(path[1][1], path[1][2], path[Len(path)][1],
                            path[Len(path)][2]) >= settings.distl) THEN "False"
             ELSE IF ~(Len(path) >= settings.pathl) THEN "False"
             ELSE _acceptable_distfirst(Tail(ps))

\* mutant: one bound is enough
RECURSIVE _acceptable_or(_)
_acceptable_or(ps) ==
    IF ps = <<>> THEN "True"
    ELSE LET path == Head(ps)
         IN  IF Len(path) >= settings.pathl THEN _acceptable_or(Tail(ps))
             ELSE IF path = <<>> THEN "IndexError"
             ELSE IF ~(dist(path[1][1], path[1][2], path[Len(path)][1],
                            path[Len(path)][2]) >= settings.distl) THEN "False"
             ELSE _acceptable_or(Tail(ps))

\* mutant: any() in place of all()
RECURSIVE _acceptable_any(_)
_acceptable_any(ps) ==
    IF ps = <<>> THEN "False"
    ELSE LET path == Head(ps)
         IN  IF ~(Len(path) >= settings.pathl) THEN _acceptable_any(Tail(ps))
             ELSE IF path = <<>> THEN "IndexError"
             ELSE IF dist(path[1][1], path[1][2], path[Len(path)][1],
                          path[Len(path)][2]) >= settings.distl THEN "True"
             ELSE _acceptable_any(Tail(ps))

\* mutant: the length comparison is reversed
RECURSIVE _acceptable_rev(_)
_acceptable_rev(ps) ==
    IF ps = <<>> THEN "True"
    ELSE LET path == Head(ps)
         IN  IF ~(Len(path) <= settings.pathl) THEN "False"
             ELSE IF path = <<>> THEN "IndexError"
             ELSE IF ~(dist(path[1][1], path[1][2], path[Len(path)][1],
                            path[Len(path)][2]) >= settings.distl) THEN "False"
             ELSE _acceptable_rev(Tail(ps))

\* all(len(path) >= pathl and dist(*path[0], *path[-1]) >= distl for path in paths)
\* "IndexError": path[0] of an empty path was evaluated
RECURSIVE _acceptable(_)
_acceptable(ps) ==
    IF ps = <<>> THEN "True"
    ELSE LET path == Head(ps)
         IN  IF ~(Len(path) >= settings.pathl) THEN "False"
             ELSE IF path = <<>> THEN "IndexError"
             ELSE IF ~(dist(path[1][1], path[1][2], path[Len(path)][1],
                            path[Len(path)][2]) >= settings.distl) THEN "False"
             ELSE _acceptable(Tail(ps))

\* len(path)**1.5 is kept in fixed point, the integer part of QScale * n^1.5;
\* on attempts of up to 7 cells the scores so computed are ordered, ties
\* included, as the floating-point sums of the source are
QScale == 100

RECURSIVE ISqrt(_, _, _)
ISqrt(x, lo, hi) ==
    IF lo = hi THEN lo
    ELSE LET mid == (lo + hi + 1) \div 2
         IN  IF mid * mid <= x THEN ISqrt(x, mid, hi) ELSE ISqrt(x, lo, mid - 1)

Pow15(n) == ISqrt(n * n * n * QScale * QScale, 0, Min(n * n * QScale, 46340))

\* mutant: len(paths) is written for len(path)
_quality_count(ps) == SumSeq([k \in 1..Len(ps) |-> Pow15(Len(ps))])

_quality(ps) == SumSeq([k \in 1..Len(ps) |-> Pow15(Len(ps[k]))])

\* mutant: a later item of the same key replaces the best one
RECURSIVE MaxFrom_last(_, _)
MaxFrom_last(best, rest) ==
    IF rest = <<>> THEN best
    ELSE IF _quality(Head(rest)) >= _quality(best)
    THEN MaxFrom_last(Head(rest), Tail(rest))
    ELSE MaxFrom_last(best, Tail(rest))

\* max(iterable, key=_quality): a later item replaces the best one only when
\* its key is strictly greater
RECURSIVE MaxFrom(_, _)
MaxFrom(best, rest) ==
    IF rest = <<>> THEN best
    ELSE IF _quality(Head(rest)) > _quality(best) THEN MaxFrom(Head(rest), Tail(rest))
    ELSE MaxFrom(best, Tail(rest))

max_quality(atts) == MaxFrom(Head(atts), Tail(atts))

\* lines 212-215 and 229: the generator tests the attempt; max consumes it
Accept ==
    /\ pc = "accept"
    /\ LET verdict == _acceptable(paths)
       IN  IF verdict = "IndexError"
           THEN /\ Raise("IndexError")
                /\ UNCHANGED <<adj, strands, strandi, seeds, queue, paths, accepted,
                               result, appended, seeded, walked, rounds, rejected>>
           ELSE IF verdict = "False"
           THEN /\ EnterAttempt
                /\ rejected' = TRUE
                /\ UNCHANGED <<accepted, result, err>>
           ELSE /\ accepted' = Append(accepted, paths)
                /\ IF Len(accepted) + 1 >= settings.attemptc
                   THEN /\ result' = max_quality(Append(accepted, paths))
                        /\ pc' = "done"
                        /\ UNCHANGED <<adj, strands, strandi, seeds, queue, paths,
                                       err, appended, seeded, walked, rounds, rejected>>
                   ELSE /\ EnterAttempt
                        /\ UNCHANGED <<result, err, rejected>>
    /\ UNCHANGED <<settings, rand>>

Next ==
    \/ Begin
    \/ Seed
    \/ Grow
    \/ Prune
    \/ ShuffleSort
    \/ Cleanse
    \/ Return
    \/ Accept

Spec == Init /\ [][Next]_vars

\* the program is sequential: whenever a step of the strand-building loop is
\* possible it is eventually taken.  Seed is enabled exactly when pc = "seed"
\* (a shuffle always has a result) and no other action leaves that position,
\* so weak fairness of Seed is stated as: control is never at "seed" for ever.
FairSpec ==
    /\ Init
    /\ [][Next]_vars
    /\ WF_vars(Begin) /\ WF_vars(Grow) /\ WF_vars(Prune)
    /\ []<>(pc # "seed")

\* generate_paths(DIFFICULTY_SETTINGS['trivial'], Random(seed))
SeededSpec == SeededInit /\ [][Next]_vars

(* ======================= properties ======================= *)
PathsDisjoint(ps) ==
    \A a \in 1..Len(ps) : \A b \in 1..Len(ps) :
        a # b => Range(ps[a]) \cap Range(ps[b]) = {}

NoRepeat(s) == \A a \in 1..Len(s) : \A b \in 1..Len(s) : a # b => s[a] # s[b]

\* C1: the paths returned by _try_generating_paths, hence every attempt that
\* generate_paths collects or returns, are pairwise cell-disjoint: no grid
\* cell appears in two different paths of one attempt.
C1_PathsPairwiseDisjoint ==
    /\ pc \in {"cleanse", "accept"} => PathsDisjoint(paths)
    /\ \A k \in 1..Len(accepted) : PathsDisjoint(accepted[k])
    /\ pc = "done" => PathsDisjoint(result)

\* an attempt of at least two non-empty paths has been returned
C1_Witness ==
    /\ pc = "accept"
    /\ Len(paths) >= 2
    /\ \A k \in 1..Len(paths) : Len(paths[k]) >= 2

MeetsBounds(path) ==
    /\ path # <<>>
    /\ Len(path) >= settings.pathl
    /\ dist(path[1][1], path[1][2], path[Len(path)][1], path[Len(path)][2])
          >= settings.distl

\* C2: every path of every attempt yielded by _generate_acceptable_paths, and
\* of the attempt generate_paths returns, has length >= pathl and Manhattan
\* distance >= distl between its first and last cell; an attempt with one
\* violating path is not yielded.
C2_AcceptedMeetBounds ==
    /\ \A k \in 1..Len(accepted) : \A j \in 1..Len(accepted[k]) :
           MeetsBounds(accepted[k][j])
    /\ pc = "done" => /\ \E k \in 1..Len(accepted) : result = accepted[k]
                      /\ \A j \in 1..Len(result) : MeetsBounds(result[j])

\* an attempt was rejected, a later one was returned under bounds that bind
C2_Witness ==
    /\ pc = "done"
    /\ rejected
    /\ result # <<>>
    /\ settings.pathl >= 2
    /\ settings.distl >= 1

InBuilder == pc \in {"seed", "grow"}

\* C3: for r, c >= 1 and endcl >= 1 the strand-building loop terminates under
\* every sequence of draws: every round's seeding assigns at least one cell
\* that was unassigned, every pop shortens the frontier or assigns a new cell,
\* and the builder always reaches the extraction.
C3_BuilderTerminates ==
    /\ [][(pc = "seed" /\ pc' = "grow")
            => Cardinality(DOMAIN strandi') > Cardinality(DOMAIN strandi)]_vars
    /\ [][(pc = "grow" /\ pc' = "grow")
            => \/ Cardinality(DOMAIN strandi') > Cardinality(DOMAIN strandi)
               \/ /\ strandi' = strandi
                  /\ Len(seeds') < Len(seeds)]_vars
    /\ InBuilder ~> (pc = "shuffle")

\* the loop has ended after more than one round
C3_Witness ==
    /\ pc = "shuffle"
    /\ rounds >= 2

\* C4: when the strand-building loop exits every grid cell is in strandi, and
\* each cell was appended to a strand list exactly once (as a seed or as an
\* attached neighbour); while the loop runs a cell has been appended once if
\* it is assigned and never otherwise.
C4_EveryCellAssignedOnce ==
    /\ pc \in {"seed", "grow", "shuffle", "cleanse", "accept", "done"} =>
          \A x \in Grid : appended[x] = IF x \in DOMAIN strandi THEN 1 ELSE 0
    /\ pc \in {"shuffle", "cleanse", "accept", "done"} =>
          /\ DOMAIN strandi = Grid
          /\ \A x \in Grid : appended[x] = 1

\* the loop has ended on a grid of six cells, some seeded and some attached
C4_Witness ==
    /\ pc = "shuffle"
    /\ Cardinality(Grid) = 6
    /\ rounds >= 2
    /\ \E x \in Grid : adj[x] # <<>>

\* the strand is a simple path in adj: two cells of degree 1, and the walk
\* between them passes every cell of the strand once
IsSimplePath(strand) ==
    LET ends == DegreeOne(strand)
    IN  /\ Len(ends) = 2
        /\ LET w == Walk(<<ends[1], ends[1]>>, ends[2], Cardinality(Grid) + 1)
           IN  /\ w.err = "none"
               /\ Len(w.seq) = Len(strand) + 1
               /\ Range(w.seq) = Range(strand)
               /\ NoRepeat(Tail(w.seq))

\* C5: in every state of the strand builder and of the extraction every cell
\* has at most 2 edges, adj is symmetric, and every strand of length >= 2 is a
\* simple path graph in adj: exactly two cells of degree 1, and the walk from
\* scell to ecell visits every cell of the strand exactly once; the
\* destructurings of cleanse never fail.
C5_StrandsAreSimplePaths ==
    pc \in {"seed", "grow", "shuffle", "cleanse", "accept", "done"} =>
        /\ \A x \in Grid :
              /\ Len(adj[x]) <= 2
              /\ NoRepeat(adj[x])
              /\ \A y \in Range(adj[x]) : x \in Range(adj[y])
        /\ \A k \in 1..Len(strands) :
              Len(strands[k]) >= 2 => IsSimplePath(strands[k])
        /\ \A k \in 1..Len(walked) :
              /\ walked[k].err = "none"
              /\ Len(walked[k].seq) = Len(walked[k].strand) + 1
              /\ Range(walked[k].seq) = Range(walked[k].strand)
              /\ NoRepeat(Tail(walked[k].seq))

\* a strand grown on both sides of its seed has been walked by cleanse
C5_Witness ==
    /\ pc = "cleanse"
    /\ \E k \in 1..Len(walked) :
          /\ Len(walked[k].strand) >= 4
          /\ Len(adj[walked[k].strand[1]]) = 2

\* C6: generate_paths returns, out of the first attemptc acceptable attempts
\* (rejected attempts are neither counted nor returned), one whose quality
\* score is the highest, and among those of the highest score the one that
\* was produced first.
C6_ReturnsFirstBest ==
    pc = "done" =>
        /\ Len(accepted) = settings.attemptc
        /\ \A k \in 1..Len(accepted) : _acceptable(accepted[k]) = "True"
        /\ \E k \in 1..Len(accepted) :
              /\ result = accepted[k]
              /\ \A j \in 1..Len(accepted) :
                    _quality(accepted[j]) <= _quality(result)
              /\ \A j \in 1..(k - 1) : _quality(accepted[j]) < _quality(result)

\* two different attempts of the same score were collected after a rejected
\* one, and the first of the two was returned
C6_Witness ==
    /\ pc = "done"
    /\ rejected
    /\ Len(accepted) = 2
    /\ accepted[1] # accepted[2]
    /\ _quality(accepted[1]) = _quality(accepted[2])
    /\ _quality(result) > 0
    /\ result = accepted[1]

\* C7 as stated: with pathl > r*c no attempt is ever accepted, so
\* generate_paths never returns.
C7_NeverAcceptsWhenPathlTooLarge ==
    settings.pathl > settings.r * settings.c =>
        /\ accepted = <<>>
        /\ pc # "done"

\* C7 amended: with pathl > r*c no attempt that holds a path is ever
\* accepted; the only attempt that is accepted, and the only value
\* generate_paths can return, is the attempt with no path at all.
C7_OnlyEmptyAttemptAccepted ==
    settings.pathl > settings.r * settings.c =>
        /\ \A k \in 1..Len(accepted) : accepted[k] = <<>>
        /\ pc = "done" => result = <<>>
        /\ (pc = "accept" /\ paths # <<>>) => _acceptable(paths) = "False"

\* with pathl > r*c an attempt has been rejected and the next one, which
\* holds a path, is about to be
C7_Witness ==
    /\ settings.pathl > settings.r * settings.c
    /\ rejected
    /\ pc = "accept"
    /\ paths # <<>>
    /\ accepted = <<>>

InStrands(x) == {k \in 1..Len(strands) : x \in Range(strands[k])}

\* C8 as stated: after the strand builder the surviving strands have length
\* >= 2 and every grid cell belongs to exactly one of them.
C8_SurvivorsPartitionGrid ==
    pc = "shuffle" =>
        /\ \A k \in 1..Len(strands) : Len(strands[k]) >= 2
        /\ \A x \in Grid : Cardinality(InStrands(x)) = 1

\* C8 amended: after the strand builder the surviving strands have length
\* >= 2 and hold no cell twice, and every grid cell belongs to at most one of
\* them: to exactly one if the cell has an edge in adj, to none if it has no
\* edge (a seed that could not grow, whose singleton strand was pruned).
C8_SurvivorsDisjoint ==
    pc = "shuffle" =>
        /\ \A k \in 1..Len(strands) :
              /\ Len(strands[k]) >= 2
              /\ NoRepeat(strands[k])
              /\ Range(strands[k]) \subseteq Grid
        /\ \A x \in Grid :
              Cardinality(InStrands(x)) = IF adj[x] = <<>> THEN 0 ELSE 1

\* the builder has ended with a strand and with a cell that is in no strand
C8_Witness ==
    /\ pc = "shuffle"
    /\ strands # <<>>
    /\ \E x \in Grid : InStrands(x) = {}

\* C9: an attempt returned by _try_generating_paths holds
\* min(endcl, number of strands of length >= 2 left after full coverage)
\* paths, so at most endcl; the seeding, the growth and the extraction never
\* raise, also when fewer cells or strands than endcl are available.
C9_PathCount ==
    /\ pc = "accept" =>
          /\ Len(paths) <= settings.endcl
          /\ Len(paths) = Min(settings.endcl, Len(strands))
          /\ \A k \in 1..Len(strands) : Len(strands[k]) >= 2
    /\ pc \in {"seed", "grow", "shuffle", "cleanse", "accept"} =>
          Len(paths) <= settings.endcl
    /\ err.at \notin {"seed", "grow", "shuffle", "cleanse"}

\* fewer strands than endcl were left to cleanse, and all were cleansed
C9_Witness ==
    /\ pc = "accept"
    /\ Len(strands) < settings.endcl
    /\ Len(paths) >= 1

EndsApart(path) ==
    /\ path # <<>>
    /\ dist(path[1][1], path[1][2], path[Len(path)][1], path[Len(path)][2]) >= 1

\* C10 as stated: with the 'trivial' settings the attempt generate_paths
\* returns holds exactly 4 paths, pairwise disjoint, each with Manhattan
\* distance >= 1 between its first and last cell.
C10_TrivialExactlyFour ==
    (settings = Trivial /\ pc = "done") =>
        /\ Len(result) = 4
        /\ PathsDisjoint(result)
        /\ \A k \in 1..Len(result) : EndsApart(result[k])

\* C10 amended: with the 'trivial' settings the attempt generate_paths
\* returns holds at most 4 paths and at least one, pairwise disjoint, each
\* with Manhattan distance >= 1 between its first and last cell.
C10_TrivialAtMostFour ==
    (settings = Trivial /\ pc = "done") =>
        /\ Len(result) <= 4
        /\ Len(result) >= 1
        /\ PathsDisjoint(result)
        /\ \A k \in 1..Len(result) : EndsApart(result[k])

\* generate_paths has returned an attempt of fewer than 4 paths for 'trivial'
C10_Witness ==
    /\ settings = Trivial
    /\ pc = "done"
    /\ Len(result) >= 1
    /\ Len(result) < 4

\* the draws the step at the current position can make: for each, what was
\* drawn and the random source it leaves
GrowDraws ==
    UNION {LET neighs == good_neighbors(seeds[d.v + 1])
           IN  IF seeds[d.v + 1] \notin DOMAIN strandi \/ neighs = <<>>
               THEN {<<d.v, 0, d.rs>>}
               ELSE {<<d.v, e.v, e.rs>> : e \in RandBelow(d.rs, Len(neighs))}
           : d \in RandBelow(rand, Len(seeds))}

StepDraws ==
    CASE pc = "seed" -> shuffled(rand, UnassignedList)
      [] pc = "grow" /\ seeds # <<>> -> GrowDraws
      [] pc = "shuffle" -> shuffled(rand, strands)
      [] pc = "cleanse" /\ queue # <<>> -> cleanse(rand, Head(queue))
      [] pc = "cleanse" /\ queue = <<>> -> shuffled(rand, paths)
      [] OTHER -> {rand}

ExtendAll(ps) ==
    [k \in 1..Len(ps) |->
        Append(ps[k], IF ps[k] = <<>> THEN <<0, 0>> ELSE ps[k][Len(ps[k])])]

\* C12 as stated: for every attempt, the attempt with every path extended by
\* one cell has a strictly higher _quality score.
C12_ExtendedScoresHigher ==
    /\ pc = "accept" => _quality(ExtendAll(paths)) > _quality(paths)
    /\ \A k \in 1..Len(accepted) :
           _quality(ExtendAll(accepted[k])) > _quality(accepted[k])

\* C12 amended: for every attempt that holds at least one path, the attempt
\* with every path extended by one cell has a strictly higher _quality
\* score; the attempt with no path scores 0 either way.
C12_ExtendedNonEmptyScoresHigher ==
    /\ pc = "accept" =>
          IF paths = <<>> THEN _quality(ExtendAll(paths)) = _quality(paths)
          ELSE _quality(ExtendAll(paths)) > _quality(paths)
    /\ \A k \in 1..Len(accepted) :
           accepted[k] # <<>> =>
               _quality(ExtendAll(accepted[k])) > _quality(accepted[k])

\* an attempt of several paths of different lengths has been produced
C12_Witness ==
    /\ pc = "accept"
    /\ Len(paths) >= 2
    /\ \E a \in 1..Len(paths) : \E b \in 1..Len(paths) :
           Len(paths[a]) >= Len(paths[b]) + 2

\* the cells whose singleton strand was dropped: assigned, in no strand list
Dropped == {x \in DOMAIN strandi : InStrands(x) = {}}

\* a step inside one _try_generating_paths call leaves every dropped cell
\* dropped, with its index, without an edge and never appended again
DroppedKept ==
    pc \in {"seed", "grow", "shuffle", "cleanse"} =>
        \A x \in Dropped :
            /\ x \in Dropped'
            /\ strandi'[x] = strandi[x]
            /\ appended'[x] = appended[x]
            /\ adj'[x] = <<>>

\* C13: a cell whose singleton strand was dropped at the end of a round stays
\* assigned for the rest of the _try_generating_paths call: no later step
\* seeds it, attaches it to a strand, gives it an edge or changes its index,
\* and it is in no path of the attempt.
C13_DroppedStayOut ==
    /\ [][DroppedKept]_vars
    /\ [](pc \in {"cleanse", "accept"} =>
            \A k \in 1..Len(paths) : Range(paths[k]) \cap Dropped = {})

\* a cell was dropped in an earlier round, and a later round has seeded and
\* grown its strands to the end
C13_Witness ==
    /\ pc = "grow"
    /\ rounds >= 2
    /\ seeds = <<>>
    /\ Dropped # {}

\* C14 as stated: after the random trimming has removed t cells one more
\* cell is removed from the front, so a strand of L cells yields a path of
\* exactly L - t - 1 cells, always strictly shorter than the strand.
C14_PathIsStrandLessTrimLessOne ==
    \A k \in 1..Len(walked) :
        walked[k].err = "none" =>
            /\ Len(walked[k].path) = Len(walked[k].strand) - walked[k].t - 1
            /\ Len(walked[k].path) < Len(walked[k].strand)

\* C14 amended: the walked sequence holds the start cell twice, so L + 1
\* entries for a strand of L cells; the random trimming removes t entries and
\* one more entry is removed from the front, so the path has exactly L - t
\* cells: the whole strand when t = 0, strictly fewer cells when t >= 1.
C14_PathIsStrandLessTrim ==
    \A k \in 1..Len(walked) :
        walked[k].err = "none" =>
            /\ Len(walked[k].seq) = Len(walked[k].strand) + 1
            /\ walked[k].seq[1] = walked[k].seq[2]
            /\ walked[k].t \in 0..2
            /\ Len(walked[k].path) = Len(walked[k].strand) - walked[k].t
            /\ walked[k].t = 0 => walked[k].path = Tail(walked[k].seq)
            /\ walked[k].t >= 1 => Len(walked[k].path) < Len(walked[k].strand)

\* a strand of at least four cells was cleansed with two entries trimmed, one
\* at each end
C14_Witness ==
    /\ pc = "accept"
    /\ \E k \in 1..Len(walked) :
           /\ walked[k].t = 2
           /\ Len(walked[k].strand) >= 4
           /\ walked[k].path[1] # walked[k].seq[1]
           /\ walked[k].path[Len(walked[k].path)] # walked[k].seq[Len(walked[k].seq)]

Max(a, b) == IF a > b THEN a ELSE b

\* C15 as stated: the random trimming of a strand of L cells removes t cells
\* with 0 <= t <= max(0, min(L - distl, 2)); no trimming when L <= distl.
C15_TrimBoundedByStrandCells ==
    \A k \in 1..Len(walked) :
        walked[k].err = "none" =>
            /\ 0 <= walked[k].t
            /\ walked[k].t <= Max(0, Min(Len(walked[k].strand) - settings.distl, 2))
            /\ Len(walked[k].strand) <= settings.distl => walked[k].t = 0

\* C15 amended: the bound is computed from the walked sequence, which holds
\* L + 1 entries for a strand of L cells (the start cell twice):
\* 0 <= t <= max(0, min(L + 1 - distl, 2)); no trimming when L + 1 <= distl.
C15_TrimBoundedBySequenceLength ==
    \A k \in 1..Len(walked) :
        walked[k].err = "none" =>
            /\ 0 <= walked[k].t
            /\ walked[k].t <= Max(0, Min(Len(walked[k].seq) - settings.distl, 2))
            /\ Len(walked[k].seq) = Len(walked[k].strand) + 1
            /\ Len(walked[k].strand) + 1 <= settings.distl => walked[k].t = 0

\* a strand of exactly distl cells had one entry trimmed
C15_Witness ==
    /\ pc = "accept"
    /\ \E k \in 1..Len(walked) :
           /\ Len(walked[k].strand) = settings.distl
           /\ walked[k].t = 1

\* C16 as stated: at every point of a strand-builder run, for every strand at
\* (0-based) position k of the strand collection and every cell x in it,
\* strandi[x] = k, also after singleton strands were pruned in earlier rounds.
C16_IndexIsCurrentPosition ==
    pc \in {"seed", "grow"} =>
        \A k \in 1..Len(strands) : \A x \in Range(strands[k]) :
            strandi[x] = k - 1

\* C16 amended: a cell keeps the index its strand had when the strand was
\* seeded.  All cells of a strand carry the same index, which is never below
\* the strand's current position; it is the current position for the strands
\* seeded in the running round, and for every strand while no singleton
\* strand has been pruned.
C16_IndexIsPositionWhenSeeded ==
    pc \in {"seed", "grow"} =>
        /\ \A k \in 1..Len(strands) : \A x \in Range(strands[k]) :
              /\ x \in DOMAIN strandi
              /\ strandi[x] = strandi[strands[k][1]]
              /\ strandi[x] >= k - 1
              /\ (pc = "grow" /\ k > Len(strands) - seeded) => strandi[x] = k - 1
        /\ Dropped = {} =>
              \A k \in 1..Len(strands) : \A x \in Range(strands[k]) :
                  strandi[x] = k - 1

\* after a pruning a strand of an earlier round sits below its index, and a
\* strand seeded in the running round has grown
C16_Witness ==
    /\ pc = "grow"
    /\ rounds >= 2
    /\ \E k \in 1..Len(strands) : strandi[strands[k][1]] > k - 1
    /\ \E k \in 1..Len(strands) :
           /\ k > Len(strands) - seeded
           /\ Len(strands[k]) >= 2

\* the strands that cleanse was called on, and the positions of strands it
\* was not called on
Cleansed == {walked[k].strand : k \in 1..Len(walked)}

Discarded == {k \in 1..Len(strands) : strands[k] \notin Cleansed}

\* C17: when more than endcl strands survive, exactly endcl strands are
\* cleansed, and every cleansed strand is at least as long as every strand
\* that is discarded.
C17_LongestAreCleansed ==
    (pc = "accept" /\ Len(strands) > settings.endcl) =>
        /\ Len(walked) = settings.endcl
        /\ Len(paths) = settings.endcl
        /\ Cardinality(Cleansed) = settings.endcl
        /\ Cardinality(Discarded) = Len(strands) - settings.endcl
        /\ \A k \in 1..Len(walked) : \A d \in Discarded :
               Len(walked[k].strand) >= Len(strands[d])

\* more strands survived than endcl, and a discarded strand is strictly
\* shorter than a cleansed one
C17_Witness ==
    /\ pc = "accept"
    /\ Len(strands) > settings.endcl
    /\ \E k \in 1..Len(walked) : \E d \in Discarded :
           Len(walked[k].strand) > Len(strands[d])

\* C18: in every round, also after singleton pruning has shifted strand
\* positions, an attached cell is appended to the strand list that holds the
\* frontier cell it was attached to: both cells of every edge of adj are in
\* one and the same strand list, and neither the assertion of line 162 nor
\* the indexing of line 176 ever fails.
C18_EdgesStayInsideOneStrand ==
    /\ pc \in {"seed", "grow", "shuffle", "cleanse", "accept"} =>
          \A x \in Grid : \A y \in Range(adj[x]) :
              /\ Cardinality(InStrands(x)) = 1
              /\ InStrands(y) = InStrands(x)
    /\ pc = "grow" => \A k \in 1..Len(seeds) : seeds[k] \in DOMAIN strandi
    /\ err.at # "grow"

\* a pruning has moved a strand below its index, and in a later round a cell
\* was attached to a seed of that round
C18_Witness ==
    /\ pc = "grow"
    /\ rounds >= 2
    /\ \E k \in 1..Len(strands) : strandi[strands[k][1]] > k - 1
    /\ \E k \in 1..Len(strands) :
           /\ k > Len(strands) - seeded
           /\ Len(strands[k]) >= 2
           /\ strands[k][2] \in Range(adj[strands[k][1]])

\* path is the piece of walk from position a + 1 on, Len(path) cells long
IsPieceOf(path, walk) ==
    \E a \in 0..Len(walk) :
        /\ a + Len(path) <= Len(walk)
        /\ path = SubSeq(walk, a + 1, a + Len(path))

\* C19: every path returned by cleanse is a contiguous piece of the walk of
\* its strand: it holds no cell twice (the duplicated start cell is never
\* twice in the output), every two consecutive cells are 4-neighbours on the
\* grid, and all its cells belong to the cleansed strand.
C19_PathIsPieceOfWalk ==
    \A k \in 1..Len(walked) :
        walked[k].err = "none" =>
            LET path == walked[k].path
            IN  /\ IsPieceOf(path, Tail(walked[k].seq))
                /\ NoRepeat(path)
                /\ \A p \in 1..(Len(path) - 1) :
                       dist(path[p][1], path[p][2], path[p + 1][1], path[p + 1][2]) = 1
                /\ Range(path) \subseteq Range(walked[k].strand)

\* both trims were taken at the back of a strand that bends: the path starts
\* with the start cell, once, and has at least three cells on two rows
C19_Witness ==
    /\ pc = "accept"
    /\ \E k \in 1..Len(walked) :
           /\ walked[k].t = 2
           /\ Len(walked[k].path) >= 3
           /\ walked[k].path[1] = walked[k].seq[1]
           /\ \E p \in 1..Len(walked[k].path) :
                  walked[k].path[p][1] # walked[k].path[1][1]

HasEmptyPath(ps) == \E k \in 1..Len(ps) : ps[k] = <<>>

\* C20: cleanse can return an empty path, but whenever pathl >= 1 an attempt
\* that holds an empty path is rejected by _acceptable without indexing the
\* empty path (no IndexError), so every path of an attempt that is collected
\* or returned by generate_paths is non-empty.
C20_EmptyPathRejectedQuietly ==
    settings.pathl >= 1 =>
        /\ (pc = "accept" /\ HasEmptyPath(paths)) => _acceptable(paths) = "False"
        /\ err.type # "IndexError"
        /\ err.at # "accept"
        /\ \A k \in 1..Len(accepted) : ~HasEmptyPath(accepted[k])
        /\ pc = "done" => ~HasEmptyPath(result)

\* with pathl >= 1 a 2-cell strand was trimmed twice and gave an empty path,
\* in an attempt that follows a rejected one
C20_Witness ==
    /\ settings.pathl >= 1
    /\ settings.distl <= 1
    /\ pc = "accept"
    /\ rejected
    /\ HasEmptyPath(paths)
    /\ \E k \in 1..Len(walked) :
           /\ Len(walked[k].strand) = 2
           /\ walked[k].t = 2
           /\ walked[k].path = <<>>

====
